---- MODULE Spec2Model ----
(***************************************************************************)
(* A model of nthparty/lhe: the two-level pairing-based homomorphic        *)
(* encryption of lhe/lhe.py (ElGamal in G1 and G2, product ciphertexts in  *)
(* GT, the composite CT1/CT2 operators, type-dispatched decryption and the *)
(* bounded discrete-log search), and the many_level API that               *)
(* lhe/__init__.py exports from lhe/level_d.py.                            *)
(*                                                                         *)
(* The pairing backend (mclbn256) is represented up to isomorphism: G1, G2 *)
(* and GT are cyclic of the same prime order Q, and an element is held as  *)
(* its exponent with respect to the fixed generator g1, g2 or z1.  The     *)
(* scalar field Fr is the integers modulo Q.                               *)
(***************************************************************************)
EXTENDS Integers, Sequences, FiniteSets

\* The order of G1, G2, GT and the modulus of Fr.  The source takes the
\* 254-bit order of BN254 from the backend; a small prime stands for it.
Q == 7

\* The ceiling of the discrete-log search, pow(2, 20) in the source.
DlogBound == 3

\* The random scalar drawn when an operand of a homomorphic operation is
\* encrypted is 0 (no mask) or MaxRand.
MaxRand == 1

\* Scalars of a scalar multiplication are taken from 0..MaxScalar.
MaxScalar == 2

\* The number of homomorphic operations applied to one ciphertext.
MaxOps == 2

\* The levels asked of the many-level API are taken from 1..MaxLevel.
MaxLevel == 2

Fr == 0 .. (Q - 1)

Rand == {0, MaxRand}

\* The plaintexts handed to the encryption functions: those the search can
\* recover and one beyond its ceiling.
Plain == 0 .. DlogBound

----------------------------------------------------------------------------
(* Python values.  Every value is a record with a field kind.              *)

None == [kind |-> "None"]

Unset == [kind |-> "Unset"]

FrVal(n) == [kind |-> "Fr", v |-> n % Q]

Raise(e) == [kind |-> "Raise", exc |-> e]

IsCiphertext(x) == x.kind \in {"CTG1", "CTG2", "CTGT", "CT1", "CT2"}

----------------------------------------------------------------------------
(* The backend: mclbn256's Fr, G1, G2, GT.                                 *)

\* Fr(n) for a Python int n, negative ones included: the residue modulo Q.
FrOf(n) == n % Q

Fr_add(a, b) == (a + b) % Q

Fr_sub(a, b) == (a - b) % Q

Fr_mul(a, b) == (a * b) % Q

Fr_neg(a) == (Q - a) % Q

\* x ** e in Fr: e is read as the integer in 0..Q-1 that represents it.
RECURSIVE Fr_pow(_, _)
Fr_pow(x, e) == IF e = 0 THEN 1 % Q ELSE (x * Fr_pow(x, e - 1)) % Q

\* G1 and G2, written additively.
G_add(a, b) == (a + b) % Q

G_sub(a, b) == (a - b) % Q

G_neg(a) == (Q - a) % Q

G_mul(a, k) == (a * k) % Q

\* The pairing a @ b of a in G1 with b in G2: e(g1*a, g2*b) = z1 ** (a*b).
Pair(a, b) == (a * b) % Q

\* GT, written multiplicatively: exponents of z1 add.
GT_mul(x, y) == (x + y) % Q

GT_pow(x, k) == (x * k) % Q

\* The fixed generators.
g1 == 1 % Q

g2 == 1 % Q

z1 == Pair(g1, g2)

----------------------------------------------------------------------------
(* The ciphertext and key types of lhe.py (NamedTuples).                   *)

CTG1(g1r, g1m_pr) == [kind |-> "CTG1", g1r |-> g1r, g1m_pr |-> g1m_pr]

CTG2(g2r, g2m_pr) == [kind |-> "CTG2", g2r |-> g2r, g2m_pr |-> g2m_pr]

CTGT(c0, c1, c2, c3) ==
    [kind |-> "CTGT", z_r1_r2 |-> c0, z_m2_s2_r2__r1 |-> c1,
     z_m1_s1_r1__r2 |-> c2, z_m1_s1_r1__m2_s2_r2 |-> c3]

CT1(ctg1, ctg2) == [kind |-> "CT1", ctg1 |-> ctg1, ctg2 |-> ctg2]

CT2(ctgt) == [kind |-> "CT2", ctgt |-> ctgt]

SK(s1, s2) == [kind |-> "SK", s1 |-> s1, s2 |-> s2]

PK(p1, p2) == [kind |-> "PK", p1 |-> p1, p2 |-> p2]

----------------------------------------------------------------------------
(* Key generation and encryption.  A scalar the source draws with Fr() is  *)
(* a parameter here, chosen by the action that calls the function.         *)

keygen_G1(s) == [sk |-> s, pk |-> G_mul(g1, s)]

keygen_G2(s) == [sk |-> s, pk |-> G_mul(g2, s)]

keygen(s1, s2) ==
    [sk |-> SK(keygen_G1(s1).sk, keygen_G2(s2).sk),
     pk |-> PK(keygen_G1(s1).pk, keygen_G2(s2).pk)]

encrypt_G1_nomask(p, m, r) == CTG1(G_mul(g1, r), G_mul(g1, FrOf(m)))

encrypt_G1(p, m, r) ==
    CTG1(G_mul(g1, r), G_add(G_mul(g1, FrOf(m)), G_mul(p, r)))

encrypt_G2(p, m, r) ==
    CTG2(G_mul(g2, r), G_add(G_mul(g2, FrOf(m)), G_mul(p, r)))

encrypt_GT_plus_t(p1, p2, m, r, s, t) ==
    CTGT(GT_pow(z1, Fr_add(Fr_add(r, s), t)),
         GT_pow(Pair(g1, p2), r),
         GT_pow(Pair(p1, g2), s),
         GT_mul(GT_pow(Pair(p1, p2), t), GT_pow(z1, FrOf(m))))

encrypt_GT(p1, p2, m, r, s, t) ==
    LET z1_s2 == Pair(g1, p2)
        z1_s1 == Pair(p1, g2)
        z1_s1_s2 == Pair(p1, p2)
    IN  CTGT(GT_pow(z1, Fr_sub(Fr_add(r, s), t)),
             GT_pow(z1_s2, r),
             GT_pow(z1_s1, s),
             GT_mul(GT_pow(z1_s1_s2, t), GT_pow(z1, FrOf(m))))

encrypt_lvl_1(pk, m, r1, r2) ==
    CT1(encrypt_G1(pk.p1, m, r1), encrypt_G2(pk.p2, m, r2))

encrypt_lvl_2(pk, m, r, s, t) == CT2(encrypt_GT(pk.p1, pk.p2, m, r, s, t))

----------------------------------------------------------------------------
(* The homomorphic operators.                                              *)

add_G1(ct1, ct2) ==
    CTG1(G_add(ct1.g1r, ct2.g1r), G_add(ct1.g1m_pr, ct2.g1m_pr))

add_G2(ct1, ct2) ==
    CTG2(G_add(ct1.g2r, ct2.g2r), G_add(ct1.g2m_pr, ct2.g2m_pr))

add_GT_drop_c0(ct1, ct2) ==
    CTGT(ct1.z_r1_r2,
         GT_mul(ct1.z_m2_s2_r2__r1, ct2.z_m2_s2_r2__r1),
         GT_mul(ct1.z_m1_s1_r1__r2, ct2.z_m1_s1_r1__r2),
         GT_mul(ct1.z_m1_s1_r1__m2_s2_r2, ct2.z_m1_s1_r1__m2_s2_r2))

add_GT(ct1, ct2) ==
    CTGT(GT_mul(ct1.z_r1_r2, ct2.z_r1_r2),
         GT_mul(ct1.z_m2_s2_r2__r1, ct2.z_m2_s2_r2__r1),
         GT_mul(ct1.z_m1_s1_r1__r2, ct2.z_m1_s1_r1__r2),
         GT_mul(ct1.z_m1_s1_r1__m2_s2_r2, ct2.z_m1_s1_r1__m2_s2_r2))

multiply_G1_G2_swapped(ct1, ct2) ==
    IF ct1.kind = "CTG1" /\ ct2.kind = "CTG2"
    THEN CTGT(Pair(ct1.g1r, ct2.g2r),
              Pair(ct1.g1m_pr, ct2.g2r),
              Pair(ct1.g1r, ct2.g2m_pr),
              Pair(ct1.g1m_pr, ct2.g2m_pr))
    ELSE Raise("AttributeError")

\* A CTG1 has no attribute g2r and a CTG2 none g1r: any other pair of
\* operands raises AttributeError at the first attribute it lacks.
multiply_G1_G2(ct1, ct2) ==
    IF ct1.kind = "CTG1" /\ ct2.kind = "CTG2"
    THEN CTGT(Pair(ct1.g1r, ct2.g2r),
              Pair(ct1.g1r, ct2.g2m_pr),
              Pair(ct1.g1m_pr, ct2.g2r),
              Pair(ct1.g1m_pr, ct2.g2m_pr))
    ELSE Raise("AttributeError")

----------------------------------------------------------------------------
(* The operators the ciphertext classes overload, and Python's dispatch of *)
(* a * b and a + b among them.                                             *)

IntVal(n) == [kind |-> "int", v |-> n]

\* An operand that is neither a scalar nor a ciphertext.
FloatVal == [kind |-> "float"]

\* A plain tuple, as tuple repetition returns it.
TupleVal(n) == [kind |-> "tuple", len |-> n]

CTG1___add__(self, other) ==
    IF other.kind = "CTG1" THEN add_G1(self, other) ELSE Raise("AttributeError")

CTG2___add__(self, other) ==
    IF other.kind = "CTG2" THEN add_G2(self, other) ELSE Raise("AttributeError")

CTGT___add__(self, other) ==
    IF other.kind = "CTGT" THEN add_GT(self, other) ELSE Raise("AttributeError")

CT1___add__(self, other) ==
    IF other.kind = "CT1"
    THEN CT1(CTG1___add__(self.ctg1, other.ctg1),
             CTG2___add__(self.ctg2, other.ctg2))
    ELSE Raise("AttributeError")

CT2___add__(self, other) ==
    IF other.kind = "CT2"
    THEN CT2(CTGT___add__(self.ctgt, other.ctgt))
    ELSE Raise("AttributeError")

CTG1___mul__(self, other) == multiply_G1_G2(self, other)

CTG2___mul__(self, other) == multiply_G1_G2(other, self)

CTGT___mul___keeps_c0(self, other) ==
    CTGT(self.z_r1_r2,
         GT_pow(self.z_m2_s2_r2__r1, other.v),
         GT_pow(self.z_m1_s1_r1__r2, other.v),
         GT_pow(self.z_m1_s1_r1__m2_s2_r2, other.v))

\* self.<component> ** other: defined by the backend for other an Fr, the
\* only operand modelled.
CTGT___mul__(self, other) ==
    CTGT(GT_pow(self.z_r1_r2, other.v),
         GT_pow(self.z_m2_s2_r2__r1, other.v),
         GT_pow(self.z_m1_s1_r1__r2, other.v),
         GT_pow(self.z_m1_s1_r1__m2_s2_r2, other.v))

\* The truth value of x in `x or y`: None is false, a NamedTuple with fields
\* is a non-empty tuple and true; whether Fr(0) is true is the backend's
\* choice (frZeroTruthy).
Truthy(x, frZeroTruthy) ==
    CASE x.kind = "None" -> FALSE
      [] x.kind = "Fr" -> (x.v # 0) \/ frZeroTruthy
      [] OTHER -> TRUE

CT1_scale_g1_only(self, k) ==
    CT1(CTG1(G_mul(self.ctg1.g1r, k), G_mul(self.ctg1.g1m_pr, k)),
        CTG2(self.ctg2.g2r, self.ctg2.g2m_pr))

\* The body shared by CT1.__mul__ and CT1.__rmul__ for a scalar k in Fr.
CT1_scale(self, k) ==
    CT1(CTG1(G_mul(self.ctg1.g1r, k), G_mul(self.ctg1.g1m_pr, k)),
        CTG2(G_mul(self.ctg2.g2r, k), G_mul(self.ctg2.g2m_pr, k)))

CT1___mul__(self, other) ==
    LET o == IF other.kind = "int" THEN FrVal(other.v) ELSE other
    IN  IF o.kind = "Fr"
        THEN CT1_scale(self, o.v)
        ELSE IF o.kind # "CT1"
             THEN Raise("AttributeError")
             ELSE LET ct == multiply_G1_G2(o.ctg1, self.ctg2)
                  IN  CT2(IF Truthy(ct, TRUE) THEN ct
                          ELSE multiply_G1_G2(self.ctg1, o.ctg2))

\* No branch returns for an operand that is neither int nor Fr: the method
\* falls off its end and returns None.
CT1___rmul__(self, other) ==
    LET o == IF other.kind = "int" THEN FrVal(other.v) ELSE other
    IN  IF o.kind = "Fr" THEN CT1_scale(self, o.v) ELSE None

CT1___neg___g1_only(self) ==
    CT1(CTG1(G_neg(self.ctg1.g1r), G_neg(self.ctg1.g1m_pr)),
        CTG2(self.ctg2.g2r, self.ctg2.g2m_pr))

CT1___neg__(self) ==
    CT1(CTG1(G_neg(self.ctg1.g1r), G_neg(self.ctg1.g1m_pr)),
        CTG2(G_neg(self.ctg2.g2r), G_neg(self.ctg2.g2m_pr)))

CT2___mul__(self, other) ==
    LET o == IF other.kind = "int" THEN FrVal(other.v) ELSE other
    IN  IF o.kind = "Fr"
        THEN CT2(CTGT___mul__(self.ctgt, o))
        ELSE Raise("TypeError")

CT2___rmul__(self, other) == CT2___mul__(self, other)

\* a + b for a ciphertext a.
PyAdd(a, b) ==
    CASE a.kind = "CTG1" -> CTG1___add__(a, b)
      [] a.kind = "CTG2" -> CTG2___add__(a, b)
      [] a.kind = "CTGT" -> CTGT___add__(a, b)
      [] a.kind = "CT1" -> CT1___add__(a, b)
      [] a.kind = "CT2" -> CT2___add__(a, b)

\* b.__rmul__(a), which Python calls for a * b when a is an int, a float or
\* None (their own multiplication returns NotImplemented for a tuple).  CTG1,
\* CTG2 and CTGT define no __rmul__ and inherit the tuple's: repetition by an
\* int, TypeError for anything else.
PyRMul(b, a) ==
    CASE b.kind = "CT1" -> CT1___rmul__(b, a)
      [] b.kind = "CT2" -> CT2___rmul__(b, a)
      [] b.kind \in {"CTG1", "CTG2", "CTGT"} ->
            IF a.kind = "int"
            THEN TupleVal((IF a.v > 0 THEN a.v ELSE 0)
                          * (IF b.kind = "CTGT" THEN 4 ELSE 2))
            ELSE Raise("TypeError")
      [] OTHER -> Raise("TypeError")

\* a * b.  The left operand's __mul__ is tried first; the classes of lhe.py
\* never return NotImplemented, so the right operand is consulted only when
\* the left one is an int, a float or None.
PyMul(a, b) ==
    CASE a.kind = "CTG1" -> CTG1___mul__(a, b)
      [] a.kind = "CTG2" -> CTG2___mul__(a, b)
      [] a.kind = "CTGT" -> CTGT___mul__(a, b)
      [] a.kind = "CT1" -> CT1___mul__(a, b)
      [] a.kind = "CT2" -> CT2___mul__(a, b)
      [] a.kind \in {"int", "float", "None"} -> PyRMul(b, a)

----------------------------------------------------------------------------
(* The bounded discrete-log search and decryption.                         *)

BaseKinds == {"Fr", "G1", "G2", "GT"}

domain_from_one(unsigned) ==
    IF unsigned
    THEN [j \in 1 .. DlogBound |-> j]
    ELSE [j \in 1 .. (2 * DlogBound) |->
            IF j % 2 = 1 THEN (j + 1) \div 2 ELSE 0 - ((j + 1) \div 2)]

domain_always_unsigned(unsigned) == [j \in 1 .. DlogBound |-> j - 1]

\* The exponents dlog tries, as Python ints in the order it tries them:
\* range(pow(2, 20)) if unsigned, else 0, -0, 1, -1, 2, -2, ...
domain(unsigned) ==
    IF unsigned
    THEN [j \in 1 .. DlogBound |-> j - 1]
    ELSE [j \in 1 .. (2 * DlogBound) |->
            IF j % 2 = 1 THEN (j - 1) \div 2 ELSE 0 - ((j - 2) \div 2)]

\* base ** exponent, which Fr and GT define; G1 and G2 raise TypeError on
\* it and the search starts again with base * exponent.
Power(bk, base, exponent) ==
    CASE bk = "Fr" -> Fr_pow(base, exponent)
      [] bk = "GT" -> GT_pow(base, exponent)
      [] bk \in {"G1", "G2"} -> G_mul(base, exponent)

\* dlog(base, power, unsigned=False); bk is the type of base.  The first
\* exponent of the domain that matches is returned, as an Fr.
dlog(bk, base, power, unsigned) ==
    LET dom == domain(unsigned)
        hits == {j \in DOMAIN dom : Power(bk, base, FrOf(dom[j])) = power}
    IN  IF hits = {} THEN None
        ELSE FrVal(dom[CHOOSE j \in hits : \A i \in hits : j <= i])

decrypt_G1_add(s1, ct) ==
    dlog("G1", g1, G_add(ct.g1m_pr, G_mul(ct.g1r, s1)), FALSE)

decrypt_G1(s1, ct) ==
    LET g1m == G_sub(ct.g1m_pr, G_mul(ct.g1r, s1))
    IN  dlog("G1", g1, g1m, FALSE)

decrypt_G2(s2, ct) ==
    LET g2m == G_sub(ct.g2m_pr, G_mul(ct.g2r, s2))
    IN  dlog("G2", g2, g2m, FALSE)

\* The element of GT decrypt_GT hands to dlog.
unmask_GT_no_c0(s1, s2, ct) ==
    GT_mul(GT_mul(GT_pow(ct.z_m2_s2_r2__r1, Fr_neg(s1)),
                  GT_pow(ct.z_m1_s1_r1__r2, Fr_neg(s2))),
           ct.z_m1_s1_r1__m2_s2_r2)

unmask_GT(s1, s2, ct) ==
    GT_mul(GT_mul(GT_mul(GT_pow(ct.z_r1_r2, Fr_mul(s1, s2)),
                         GT_pow(ct.z_m2_s2_r2__r1, Fr_neg(s1))),
                  GT_pow(ct.z_m1_s1_r1__r2, Fr_neg(s2))),
           ct.z_m1_s1_r1__m2_s2_r2)

decrypt_GT(s1, s2, ct) == dlog("GT", z1, unmask_GT(s1, s2, ct), FALSE)

\* decrypt(sk, ct); frZeroTruthy is the truth value the backend gives Fr(0)
\* in `pt or decrypt_G2(...)`.  A value of no ciphertext type matches no
\* branch and the function returns None.
decrypt(sk, ct, frZeroTruthy) ==
    CASE ct.kind = "CT2" -> decrypt_GT(sk.s1, sk.s2, ct.ctgt)
      [] ct.kind = "CT1" ->
            LET pt == decrypt_G1(sk.s1, ct.ctg1)
            IN  IF Truthy(pt, frZeroTruthy) THEN pt
                ELSE decrypt_G2(sk.s2, ct.ctg2)
      [] ct.kind = "CTGT" -> decrypt_GT(sk.s1, sk.s2, ct)
      [] ct.kind = "CTG1" -> decrypt_G1(sk.s1, ct)
      [] ct.kind = "CTG2" -> decrypt_G2(sk.s2, ct)
      [] OTHER -> None

----------------------------------------------------------------------------
(* The state of a session with the library.                                *)

VARIABLES
    pc,     \* where the session stands
    sk,     \* the secret key, None before keygen
    pk,     \* the public key, None before keygen
    ct,     \* the value the session holds: a ciphertext, or what an
            \* operation returned or raised in its place
    ct2,    \* the second operand of a binary operation, None before it
    pt,     \* what the last decrypt or dlog call returned, Unset before it
    hist,   \* the last call made and what went into it
    nops    \* the number of homomorphic operations applied so far

vars == <<pc, sk, pk, ct, ct2, pt, hist, nops>>

AllCTG1 == {CTG1(a, b) : a \in Fr, b \in Fr}

AllCTG2 == {CTG2(a, b) : a \in Fr, b \in Fr}

AllCTGT == {CTGT(a, b, c, d) : a \in Fr, b \in Fr, c \in Fr, d \in Fr}

Init ==
    /\ pc = "start"
    /\ sk = None
    /\ pk = None
    /\ ct = None
    /\ ct2 = None
    /\ pt = Unset
    /\ hist = [op |-> "none"]
    /\ nops = 0

\* sk, pk = keygen()
Keygen ==
    /\ pc = "start"
    /\ \E s1 \in Fr, s2 \in Fr :
          /\ sk' = keygen(s1, s2).sk
          /\ pk' = keygen(s1, s2).pk
    /\ pc' = "keyed"
    /\ UNCHANGED <<ct, ct2, pt, hist, nops>>

\* ct = encrypt_G1(pk.p1, m)
Encrypt_G1 ==
    /\ pc = "keyed"
    /\ \E m \in Plain, r \in Fr :
          /\ ct' = encrypt_G1(pk.p1, m, r)
          /\ hist' = [op |-> "encrypt_G1", m |-> m]
    /\ pc' = "ct"
    /\ UNCHANGED <<sk, pk, ct2, pt, nops>>

\* ct = encrypt_G2(pk.p2, m)
Encrypt_G2 ==
    /\ pc = "keyed"
    /\ \E m \in Plain, r \in Fr :
          /\ ct' = encrypt_G2(pk.p2, m, r)
          /\ hist' = [op |-> "encrypt_G2", m |-> m]
    /\ pc' = "ct"
    /\ UNCHANGED <<sk, pk, ct2, pt, nops>>

\* ct = encrypt_GT(pk.p1, pk.p2, m)
Encrypt_GT ==
    /\ pc = "keyed"
    /\ \E m \in Plain, r \in Fr, s \in Fr, t \in Fr :
          /\ ct' = encrypt_GT(pk.p1, pk.p2, m, r, s, t)
          /\ hist' = [op |-> "encrypt_GT", m |-> m]
    /\ pc' = "ct"
    /\ UNCHANGED <<sk, pk, ct2, pt, nops>>

\* ct = encrypt_lvl_1(pk, m)
Encrypt_lvl_1 ==
    /\ pc = "keyed"
    /\ \E m \in Plain, r1 \in Fr, r2 \in Fr :
          /\ ct' = encrypt_lvl_1(pk, m, r1, r2)
          /\ hist' = [op |-> "encrypt_lvl_1", m |-> m]
    /\ pc' = "ct"
    /\ UNCHANGED <<sk, pk, ct2, pt, nops>>

\* ct = encrypt_lvl_2(pk, m)
Encrypt_lvl_2 ==
    /\ pc = "keyed"
    /\ \E m \in Plain, r \in Fr, s \in Fr, t \in Fr :
          /\ ct' = encrypt_lvl_2(pk, m, r, s, t)
          /\ hist' = [op |-> "encrypt_lvl_2", m |-> m]
    /\ pc' = "ct"
    /\ UNCHANGED <<sk, pk, ct2, pt, nops>>

\* A ciphertext that did not come from encryption under pk: the NamedTuple
\* constructors accept any group elements (a corrupted component, a
\* ciphertext made for another key).
Forge ==
    /\ pc = "keyed"
    /\ \E c \in AllCTG1 \cup AllCTG2 \cup AllCTGT
                \cup {CT2(x) : x \in AllCTGT}
                \cup {CT1(x, y) : x \in AllCTG1, y \in AllCTG2} :
          ct' = c
    /\ hist' = [op |-> "forge", m |-> 0]
    /\ pc' = "ct"
    /\ UNCHANGED <<sk, pk, ct2, pt, nops>>

\* pt = decrypt(sk, ct)
Decrypt ==
    /\ pc = "ct"
    /\ \E frZeroTruthy \in BOOLEAN : pt' = decrypt(sk, ct, frZeroTruthy)
    /\ pc' = "done"
    /\ UNCHANGED <<sk, pk, ct, ct2, hist, nops>>

Next ==
    \/ Keygen
    \/ Encrypt_G1
    \/ Encrypt_G2
    \/ Encrypt_GT
    \/ Encrypt_lvl_1
    \/ Encrypt_lvl_2
    \/ Forge
    \/ Decrypt

Spec == Init /\ [][Next]_vars

----------------------------------------------------------------------------
(* Claims checked under Spec.                                              *)

\* The exponents the default (signed) search can return, as elements of Fr.
SignedRange == {FrOf(e) : e \in (0 - (DlogBound - 1)) .. (DlogBound - 1)}

\* The element a level-1 half unmasks to, as an exponent of its generator.
Unmasked_G1(c) == G_sub(c.g1m_pr, G_mul(c.g1r, sk.s1))

Unmasked_G2(c) == G_sub(c.g2m_pr, G_mul(c.g2r, sk.s2))

\* c0^(s1*s2) * c1^(-s1) * c2^(-s2) * c3, as an exponent of z1.
Unmasked_GT(c) ==
    (c.z_r1_r2 * sk.s1 * sk.s2
       + (Q - sk.s1) * c.z_m2_s2_r2__r1
       + (Q - sk.s2) * c.z_m1_s1_r1__r2
       + c.z_m1_s1_r1__m2_s2_r2) % Q

\* C1: a level-1 ciphertext of a plaintext m in [0, DLOG_BOUND), made by
\* encrypt_G1, encrypt_G2 or encrypt_lvl_1 under the public key with any
\* randomness, decrypts under the matching secret key to m.
C1_RoundTripLevel1 ==
    (pc = "done"
       /\ hist.op \in {"encrypt_G1", "encrypt_G2", "encrypt_lvl_1"}
       /\ hist.m < DlogBound)
    => pt = FrVal(hist.m)

C1_Witness ==
    /\ pc = "done"
    /\ hist.op = "encrypt_lvl_1"
    /\ hist.m = 0
    /\ sk.s1 # 0
    /\ ct.ctg1.g1r # 0
    /\ pt = FrVal(0)

\* C2: the four components encrypt_GT (and encrypt_lvl_2) returns for m
\* satisfy c0^(s1*s2) * c1^(-s1) * c2^(-s2) * c3 = z^m for every key and
\* every r, s, t, and for m in [0, DLOG_BOUND) decrypt returns m.
C2_RoundTripLevel2 ==
    (pc \in {"ct", "done"} /\ hist.op \in {"encrypt_GT", "encrypt_lvl_2"})
    => /\ Unmasked_GT(IF ct.kind = "CT2" THEN ct.ctgt ELSE ct)
            = GT_pow(z1, FrOf(hist.m))
       /\ (pc = "done" /\ hist.m < DlogBound) => pt = FrVal(hist.m)

C2_Witness ==
    /\ pc = "done"
    /\ hist.op = "encrypt_lvl_2"
    /\ hist.m = 1
    /\ sk.s1 # 0
    /\ sk.s2 # 0
    /\ ct.ctgt.z_m2_s2_r2__r1 # 0
    /\ ct.ctgt.z_m1_s1_r1__r2 # 0
    /\ pt = FrVal(1)

\* C9 as stated: whenever an element decrypt unmasks from its input has no
\* discrete log within the bound, decrypt returns the failure value None.
C9_Original ==
    pc = "done" =>
        /\ ct.kind = "CTG1" /\ Unmasked_G1(ct) \notin SignedRange => pt = None
        /\ ct.kind = "CTG2" /\ Unmasked_G2(ct) \notin SignedRange => pt = None
        /\ ct.kind = "CTGT" /\ Unmasked_GT(ct) \notin SignedRange => pt = None
        /\ ct.kind = "CT2" /\ Unmasked_GT(ct.ctgt) \notin SignedRange
              => pt = None
        /\ ct.kind = "CT1" /\ Unmasked_G1(ct.ctg1) \notin SignedRange
              => pt = None

\* C9, amended: decrypt returns None, which is no Fr and so differs from
\* every plaintext, exactly when the search fails: for CTG1, CTG2, CTGT and
\* CT2 when the unmasked element has no discrete log within the bound; for a
\* CT1 whenever neither half has one, and never unless the G2 half has none
\* (a G1 half that fails alone is covered by the G2 half).  Any other result
\* is the discrete log of an unmasked element, and a ciphertext encrypted
\* under the key with a plaintext in range never decrypts to None.
C9_FailureIsNone ==
    pc = "done" =>
        /\ pt.kind \in {"None", "Fr"}
        /\ ct.kind = "CTG1" =>
              /\ pt = None <=> Unmasked_G1(ct) \notin SignedRange
              /\ pt # None => pt = FrVal(Unmasked_G1(ct))
        /\ ct.kind = "CTG2" =>
              /\ pt = None <=> Unmasked_G2(ct) \notin SignedRange
              /\ pt # None => pt = FrVal(Unmasked_G2(ct))
        /\ ct.kind = "CTGT" =>
              /\ pt = None <=> Unmasked_GT(ct) \notin SignedRange
              /\ pt # None => pt = FrVal(Unmasked_GT(ct))
        /\ ct.kind = "CT2" =>
              /\ pt = None <=> Unmasked_GT(ct.ctgt) \notin SignedRange
              /\ pt # None => pt = FrVal(Unmasked_GT(ct.ctgt))
        /\ ct.kind = "CT1" =>
              LET u1 == Unmasked_G1(ct.ctg1)
                  u2 == Unmasked_G2(ct.ctg2)
              IN  /\ (u1 \notin SignedRange /\ u2 \notin SignedRange)
                        => pt = None
                  /\ pt = None => u2 \notin SignedRange
                  /\ pt # None =>
                        \/ pt = FrVal(u1) /\ u1 \in SignedRange
                        \/ pt = FrVal(u2) /\ u2 \in SignedRange
        /\ (hist.op # "forge" /\ hist.m < DlogBound) => pt = FrVal(hist.m)

\* A CT1 whose G1 half fails alone, a plaintext 0 recovered, and a failure.
C9_Witness ==
    /\ pc = "done"
    /\ ct.kind = "CT1"
    /\ Unmasked_G1(ct.ctg1) \notin SignedRange
    /\ Unmasked_G2(ct.ctg2) = 0
    /\ pt = FrVal(0)

----------------------------------------------------------------------------
(* dlog called on its own: any base of any of the four types, any target.  *)

InitDlog ==
    /\ pc = "dlog"
    /\ sk = None
    /\ pk = None
    /\ ct = None
    /\ ct2 = None
    /\ pt = Unset
    /\ \E bk \in BaseKinds, base \in Fr, power \in Fr :
          hist = [op |-> "args", bk |-> bk, base |-> base, power |-> power]
    /\ nops = 0

\* pt = dlog(base, power)
Dlog_default ==
    /\ pc = "dlog"
    /\ pt' = dlog(hist.bk, hist.base, hist.power, FALSE)
    /\ hist' = [hist EXCEPT !.op = "dlog"]
    /\ pc' = "dlog_done"
    /\ UNCHANGED <<sk, pk, ct, ct2, nops>>

\* pt = dlog(base, power, unsigned=True)
Dlog_unsigned ==
    /\ pc = "dlog"
    /\ pt' = dlog(hist.bk, hist.base, hist.power, TRUE)
    /\ hist' = [hist EXCEPT !.op = "dlog_unsigned"]
    /\ pc' = "dlog_done"
    /\ UNCHANGED <<sk, pk, ct, ct2, nops>>

NextDlog ==
    \/ Dlog_default
    \/ Dlog_unsigned

SpecDlog == InitDlog /\ [][NextDlog]_vars

\* The exponents e of a set of Python ints with base^e = power.
Matches(S) == {e \in S : Power(hist.bk, hist.base, FrOf(e)) = hist.power}

Abs(e) == IF e < 0 THEN 0 - e ELSE e

\* The order of base: the least n >= 1 with base^n = base^0, 0 if there is
\* none (the base 0 of Fr).
Ord(bk, base) ==
    LET ns == {n \in 1 .. Q : Power(bk, base, n % Q) = Power(bk, base, 0)}
    IN  IF bk = "Fr" /\ base = 0 THEN 0
        ELSE CHOOSE n \in ns : \A k \in ns : n <= k

\* C6 as stated: dlog with default arguments searches [0, bound) only: it
\* returns an e of that range with base^e = target when there is one, and
\* None otherwise, also when target = base^(-e) for some 0 < e < bound.
C6_Original ==
    (pc = "dlog_done" /\ hist.op = "dlog") =>
        IF Matches(0 .. (DlogBound - 1)) = {}
        THEN pt = None
        ELSE pt.kind = "Fr" /\ pt.v \in Matches(0 .. (DlogBound - 1))

\* C6, amended: lhe.dlog with default arguments (unsigned=False) searches
\* 0, -0, 1, -1, 2, -2, ... up to |e| < bound and returns the first match as
\* an Fr, so a target base^(-e) with 0 < e < bound is found; it returns None
\* exactly when no e with |e| < bound matches.  Only with unsigned=True is
\* the search confined to [0, bound), returning the least match or None.
C6_SignedByDefault ==
    pc = "dlog_done" =>
        /\ hist.op = "dlog" =>
              LET E == Matches((0 - (DlogBound - 1)) .. (DlogBound - 1))
              IN  /\ pt = None <=> E = {}
                  /\ pt # None =>
                        \E e \in E :
                           /\ pt = FrVal(e)
                           /\ \A f \in E : Abs(e) <= Abs(f)
                           /\ (0 - e) \in E => e >= 0
        /\ hist.op = "dlog_unsigned" =>
              LET E == Matches(0 .. (DlogBound - 1))
              IN  /\ pt = None <=> E = {}
                  /\ pt # None =>
                        \E e \in E : pt = FrVal(e) /\ \A f \in E : e <= f

\* The default search returns Fr(-1) for the target base * (-1).
C6_Witness ==
    /\ pc = "dlog_done"
    /\ hist.op = "dlog"
    /\ hist.bk = "G1"
    /\ hist.base = g1
    /\ hist.power = G_neg(g1)
    /\ Matches(0 .. (DlogBound - 1)) = {}
    /\ pt = FrVal(0 - 1)

\* C7 as stated: for any base of any of the four types and any a in range,
\* dlog(base, base^a) = a.
C7_Original ==
    (pc = "dlog_done" /\ hist.op = "dlog") =>
        \A a \in 0 .. (DlogBound - 1) :
           hist.power = Power(hist.bk, hist.base, FrOf(a)) => pt = FrVal(a)

\* C7, amended: for any base in Fr, G1, G2 or GT whose order is at least 2a
\* (every element of G1, G2 and GT but the identity, whose order is the
\* group order; not the identity, and not an element of Fr of small
\* multiplicative order such as 0, 1 or -1) and any a in range,
\* dlog(base, base^a) = a.
C7_InvertsExponentiation ==
    (pc = "dlog_done" /\ hist.op = "dlog") =>
        \A a \in 0 .. (DlogBound - 1) :
           (/\ hist.power = Power(hist.bk, hist.base, FrOf(a))
            /\ Ord(hist.bk, hist.base) >= 2 * a)
           => pt = FrVal(a)

C7_Witness ==
    /\ pc = "dlog_done"
    /\ hist.op = "dlog"
    /\ hist.bk = "Fr"
    /\ hist.base = 2
    /\ Ord("Fr", 2) >= 2
    /\ hist.power = Fr_pow(2, 1)
    /\ pt = FrVal(1)

----------------------------------------------------------------------------
(* Homomorphic addition: two operands of one kind, added repeatedly.       *)

\* The plaintexts the search can recover.
PlainIn == 0 .. (DlogBound - 1)

\* The ciphertexts of each kind that encryption under pk returns, and the
\* level-2 ciphertexts that a multiplication of two of level 1 returns.
Fresh_CTG1 == {encrypt_G1(pk.p1, m, r) : m \in PlainIn, r \in Rand}

Fresh_CTG2 == {encrypt_G2(pk.p2, m, r) : m \in PlainIn, r \in Rand}

Fresh_CTGT ==
    {encrypt_GT(pk.p1, pk.p2, m, r, s, t) :
        m \in PlainIn, r \in Rand, s \in Rand, t \in Rand}

Fresh_CT1 ==
    {encrypt_lvl_1(pk, m, r1, r2) : m \in PlainIn, r1 \in Rand, r2 \in Rand}

Fresh_CT2 ==
    {encrypt_lvl_2(pk, m, r, s, t) :
        m \in PlainIn, r \in Rand, s \in Rand, t \in Rand}

Product_CTGT == {multiply_G1_G2(a, b) : a \in Fresh_CTG1, b \in Fresh_CTG2}

Product_CT2 == {CT1___mul__(a, b) : a \in Fresh_CT1, b \in Fresh_CT1}

\* The ciphertexts of kind k: freshly encrypted ones and, at level 2,
\* products.
OfKind(k) ==
    CASE k = "CTG1" -> Fresh_CTG1
      [] k = "CTG2" -> Fresh_CTG2
      [] k = "CTGT" -> Fresh_CTGT \cup Product_CTGT
      [] k = "CT1" -> Fresh_CT1
      [] k = "CT2" -> Fresh_CT2 \cup Product_CT2

\* ct = encrypt_G1(...) | encrypt_G2(...) | encrypt_GT(...) |
\*      encrypt_lvl_1(...) | encrypt_lvl_2(...)
FirstOperand ==
    /\ pc = "keyed"
    /\ \E c \in Fresh_CTG1 \cup Fresh_CTG2 \cup Fresh_CTGT
                \cup Fresh_CT1 \cup Fresh_CT2 :
          ct' = c
    /\ pc' = "have_x"
    /\ UNCHANGED <<sk, pk, ct2, pt, hist, nops>>

\* ct2 = a ciphertext of the kind of ct
SameKindOperand ==
    /\ pc = "have_x"
    /\ \E c \in OfKind(ct.kind) : ct2' = c
    /\ pc' = "have_xy"
    /\ UNCHANGED <<sk, pk, ct, pt, hist, nops>>

\* ct = ct + ct2
Add ==
    /\ pc = "have_xy"
    /\ nops < MaxOps
    /\ IsCiphertext(ct)
    /\ ct' = PyAdd(ct, ct2)
    /\ hist' = [op |-> "add", a |-> ct]
    /\ nops' = nops + 1
    /\ UNCHANGED <<pc, sk, pk, ct2, pt>>

NextAdd ==
    \/ Keygen
    \/ FirstOperand
    \/ SameKindOperand
    \/ Add

SpecAdd == Init /\ [][NextAdd]_vars

\* A level-2 ciphertext that has the form of a product: c0 * c3 = c1 * c2
\* in the exponent.
IsProductForm(c) ==
    (c.z_r1_r2 * c.z_m1_s1_r1__m2_s2_r2) % Q
        = (c.z_m2_s2_r2__r1 * c.z_m1_s1_r1__r2) % Q

\* C4: for ciphertexts a, b of one kind under one key, a + b is of that kind
\* and decrypt(sk, a + b) = decrypt(sk, a) + decrypt(sk, b) whenever the sum
\* is below the ceiling; a may itself be a sum, and at level 2 either
\* operand may come from encrypt_GT or from a multiplication.
C4_AdditiveHomomorphism ==
    (pc = "have_xy" /\ hist.op = "add") =>
        /\ ct.kind = hist.a.kind
        /\ \A fz \in BOOLEAN :
              LET da == decrypt(sk, hist.a, fz)
                  db == decrypt(sk, ct2, fz)
              IN  (da # None /\ db # None /\ da.v + db.v < DlogBound)
                  => decrypt(sk, ct, fz) = FrVal(da.v + db.v)

\* A sum of three terms at level 2: encrypt_GT's form and a product's mixed.
C4_Witness ==
    /\ pc = "have_xy"
    /\ hist.op = "add"
    /\ nops = 2
    /\ ct.kind = "CTGT"
    /\ IsProductForm(ct2)
    /\ ct2.z_r1_r2 # 0
    /\ ~IsProductForm(hist.a)
    /\ decrypt(sk, hist.a, TRUE) = FrVal(1)
    /\ decrypt(sk, ct2, TRUE) = FrVal(0)
    /\ decrypt(sk, ct, TRUE) = FrVal(1)
    /\ sk.s1 # 0
    /\ sk.s2 # 0

----------------------------------------------------------------------------
(* Homomorphic multiplication: by a scalar, and of two operands.           *)

\* The level-1 ciphertexts a ciphertext of kind k multiplies with.
Complement(k) ==
    CASE k = "CTG1" -> Fresh_CTG2
      [] k = "CTG2" -> Fresh_CTG1
      [] k = "CT1" -> Fresh_CT1
      [] OTHER -> {}

\* One operand of every ciphertext kind, a float and None.
Others ==
    {encrypt_G1(pk.p1, 1, MaxRand), encrypt_G2(pk.p2, 1, MaxRand),
     encrypt_GT(pk.p1, pk.p2, 1, MaxRand, MaxRand, MaxRand),
     encrypt_lvl_1(pk, 1, MaxRand, MaxRand),
     encrypt_lvl_2(pk, 1, MaxRand, MaxRand, MaxRand),
     FloatVal, None}

\* The ways a ciphertext meets a scalar k: ct * k and k * ct with k an int,
\* ct * Fr(k), and the call ct.__rmul__(Fr(k)).
Forms == {"ct*int", "ct*Fr", "int*ct", "__rmul__(Fr)"}

\* ct = ct * k | ct * Fr(k) | k * ct | ct.__rmul__(Fr(k)).  CTGT.__mul__
\* hands an int operand to the backend's GT.__pow__ and is left out, as is
\* __rmul__ of the classes that define none.
ScalarMul ==
    /\ pc = "have_x"
    /\ \E k \in 0 .. MaxScalar, form \in Forms :
          /\ form = "ct*int" => ct.kind # "CTGT"
          /\ form = "__rmul__(Fr)" => ct.kind \in {"CT1", "CT2"}
          /\ ct' = CASE form = "ct*int" -> PyMul(ct, IntVal(k))
                     [] form = "ct*Fr" -> PyMul(ct, FrVal(k))
                     [] form = "int*ct" -> PyMul(IntVal(k), ct)
                     [] form = "__rmul__(Fr)" ->
                           IF ct.kind = "CT1"
                           THEN CT1___rmul__(ct, FrVal(k))
                           ELSE CT2___rmul__(ct, FrVal(k))
          /\ hist' = [op |-> "smul", a |-> ct, k |-> k, form |-> form]
    /\ pc' = "scaled"
    /\ UNCHANGED <<sk, pk, ct2, pt, nops>>

\* ct2 = an operand that is no scalar
AnyOperand ==
    /\ pc = "have_x"
    /\ \E c \in Complement(ct.kind) \cup Others : ct2' = c
    /\ pc' = "have_xy"
    /\ UNCHANGED <<sk, pk, ct, pt, hist, nops>>

\* ct = ct * ct2.  CTGT.__mul__ hands its operand to the backend's
\* GT.__pow__, which is defined for an Fr only: a CTGT on the left is left
\* out.
Mul ==
    /\ pc = "have_xy"
    /\ ct.kind # "CTGT"
    /\ ct' = PyMul(ct, ct2)
    /\ hist' = [op |-> "mul", a |-> ct]
    /\ pc' = "multiplied"
    /\ UNCHANGED <<sk, pk, ct2, pt, nops>>

\* ct = ct2 * ct
MulMirror ==
    /\ pc = "have_xy"
    /\ ct2.kind # "CTGT"
    /\ ct' = PyMul(ct2, ct)
    /\ hist' = [op |-> "rmul", a |-> ct]
    /\ pc' = "multiplied"
    /\ UNCHANGED <<sk, pk, ct2, pt, nops>>

NextMul ==
    \/ Keygen
    \/ FirstOperand
    \/ ScalarMul
    \/ AnyOperand
    \/ Mul
    \/ MulMirror

SpecMul == Init /\ [][NextMul]_vars

\* The operands of the last multiplication, left and right.
Left == IF hist.op = "mul" THEN hist.a ELSE ct2

Right == IF hist.op = "mul" THEN ct2 ELSE hist.a

Complementary(a, b) ==
    \/ a.kind = "CTG1" /\ b.kind = "CTG2"
    \/ a.kind = "CTG2" /\ b.kind = "CTG1"
    \/ a.kind = "CT1" /\ b.kind = "CT1"

\* C3: for level-1 ciphertexts a of m and b of m' under one key with
\* m * m' below the ceiling, a * b decrypts to m * m': as CTG1 * CTG2 through
\* decrypt_GT, as CT1 * CT1 through decrypt; both pairing directions of two
\* CT1 give m * m', and decrypt(sk, a * b) = decrypt(sk, b * a).
C3_MultiplicativeHomomorphism ==
    (pc = "multiplied" /\ Complementary(Left, Right)) =>
        \A fz \in BOOLEAN :
            LET a == Left
                b == Right
                da == decrypt(sk, a, fz)
                db == decrypt(sk, b, fz)
            IN  (da # None /\ db # None /\ da.v * db.v < DlogBound) =>
                  /\ decrypt(sk, ct, fz) = FrVal(da.v * db.v)
                  /\ decrypt(sk, PyMul(b, a), fz) = decrypt(sk, ct, fz)
                  /\ a.kind = "CT1" =>
                        /\ ct.kind = "CT2"
                        /\ decrypt_GT(sk.s1, sk.s2,
                                      multiply_G1_G2(a.ctg1, b.ctg2))
                              = FrVal(da.v * db.v)
                        /\ decrypt_GT(sk.s1, sk.s2,
                                      multiply_G1_G2(b.ctg1, a.ctg2))
                              = FrVal(da.v * db.v)
                  /\ a.kind # "CT1" =>
                        /\ ct.kind = "CTGT"
                        /\ decrypt_GT(sk.s1, sk.s2, ct) = FrVal(da.v * db.v)

\* Two masked dual ciphertexts of 1 and 2 whose product decrypts to 2.
C3_Witness ==
    /\ pc = "multiplied"
    /\ hist.op = "mul"
    /\ hist.a.kind = "CT1"
    /\ ct2.kind = "CT1"
    /\ hist.a.ctg1.g1r # 0
    /\ ct2.ctg2.g2r # 0
    /\ sk.s1 # 0
    /\ sk.s2 # 0
    /\ decrypt(sk, hist.a, TRUE) = FrVal(1)
    /\ decrypt(sk, ct2, TRUE) = FrVal(2)
    /\ decrypt(sk, ct, TRUE) = FrVal(2)

Permitted(a, b) ==
    \/ Complementary(a, b)
    \/ a.kind \in {"CT1", "CT2", "CTGT"} /\ b.kind \in {"int", "Fr"}
    \/ a.kind \in {"int", "Fr"} /\ b.kind \in {"CT1", "CT2", "CTGT"}

\* C8 as stated: a multiplication of operands outside the permitted
\* combinations ends in an error, never in a ciphertext or in None.
C8_Original ==
    (pc = "multiplied" /\ ~Permitted(Left, Right)) => ct.kind = "Raise"

\* What the code does instead: a non-scalar times a CT1 is None.
C8_SilentNone ==
    (pc = "multiplied" /\ ~Permitted(Left, Right)) =>
        IF Right.kind = "CT1" /\ Left.kind \in {"float", "None"}
        THEN ct = None
        ELSE ct.kind = "Raise"

----------------------------------------------------------------------------
(* The many-level API: lhe/__init__.py exports level_d's keygen, encrypt   *)
(* and decrypt as many_level.                                              *)

\* The names bound in level_d's module namespace: its imports, its class,
\* its functions and the alias encrypt.  Annotations are not evaluated
\* (from __future__ import annotations).
level_d_globals ==
    {"NamedTuple", "Union", "Optional", "Tuple", "doctest", "pickle",
     "elgamal", "CTI", "keygen", "encrypt_lvl_1", "encrypt_lvl_2", "add_G1",
     "add_G2", "multiply_G1_G2", "decrypt_G1", "decrypt_G2", "decrypt_GT",
     "decrypt", "dlog", "main", "encrypt"}

\* Evaluating a name of level_d's body: a name the module does not bind
\* raises NameError.
Bound(name) == name \in level_d_globals

\* level_d.keygen(): s1, p1 = keygen_G1() ...
level_d_keygen(s1, s2) ==
    IF Bound("keygen_G1") /\ Bound("keygen_G2") /\ Bound("SK") /\ Bound("PK")
    THEN keygen(s1, s2)
    ELSE Raise("NameError")

\* level_d.encrypt_lvl_1(pk, m) called with the positional arguments args:
\* two parameters, then ct1 = encrypt_G1(pk.p1, m) ...
level_d_encrypt_lvl_1(args, r1, r2) ==
    IF Len(args) # 2
    THEN Raise("TypeError")
    ELSE IF Bound("encrypt_G1") /\ Bound("encrypt_G2") /\ Bound("CT1")
         THEN encrypt_lvl_1(args[1], args[2], r1, r2)
         ELSE Raise("NameError")

\* encrypt = encrypt_lvl_1
level_d_encrypt(args, r1, r2) == level_d_encrypt_lvl_1(args, r1, r2)

\* level_d.decrypt(sk, ct): if type(ct) is CT2: ...
level_d_decrypt(s, c, frZeroTruthy) ==
    IF Bound("CT2") /\ Bound("CT1") /\ Bound("CTGT") /\ Bound("CTG1")
       /\ Bound("CTG2")
    THEN decrypt(s, c, frZeroTruthy)
    ELSE Raise("NameError")

InitMany ==
    /\ pc = "many_start"
    /\ sk = None
    /\ pk = None
    /\ ct = None
    /\ ct2 = None
    /\ pt = Unset
    /\ hist = [op |-> "none"]
    /\ nops = 0

\* import lhe: `from lhe import elgamal, level_d` binds many_level when the
\* module elgamal resolves and raises ImportError when it does not.
ManyImport ==
    /\ pc = "many_start"
    /\ \E found \in BOOLEAN :
          IF found
          THEN pc' = "imported" /\ pt' = pt
          ELSE pc' = "raised" /\ pt' = Raise("ImportError")
    /\ UNCHANGED <<sk, pk, ct, ct2, hist, nops>>

\* sk, pk = many_level.keygen()
ManyKeygen ==
    /\ pc = "imported"
    /\ \E s1 \in Fr, s2 \in Fr :
          LET kp == level_d_keygen(s1, s2)
          IN  IF kp.kind = "Raise"
              THEN pt' = kp /\ pc' = "raised" /\ UNCHANGED <<sk, pk>>
              ELSE sk' = kp.sk /\ pk' = kp.pk /\ pc' = "many_keyed"
                   /\ pt' = pt
    /\ UNCHANGED <<ct, ct2, hist, nops>>

\* sk, pk = two_level.keygen()
TwoLevelKeygen ==
    /\ pc = "imported"
    /\ \E s1 \in Fr, s2 \in Fr :
          /\ sk' = keygen(s1, s2).sk
          /\ pk' = keygen(s1, s2).pk
    /\ pc' = "many_keyed"
    /\ UNCHANGED <<ct, ct2, pt, hist, nops>>

\* ct = many_level.encrypt(pk, l, m) | many_level.encrypt(pk, m)
ManyEncrypt ==
    /\ pc = "many_keyed"
    /\ \E l \in 1 .. MaxLevel, m \in PlainIn, withLevel \in BOOLEAN,
          r1 \in Rand, r2 \in Rand :
          /\ ct' = level_d_encrypt(IF withLevel THEN <<pk, l, m>>
                                   ELSE <<pk, m>>, r1, r2)
          /\ hist' = [op |-> "many", l |-> l, m |-> m, m2 |-> 0]
    /\ pc' = "many_x"
    /\ UNCHANGED <<sk, pk, ct2, pt, nops>>

\* ct2 = many_level.encrypt(pk, l, m2) | many_level.encrypt(pk, m2)
ManyEncryptSecond ==
    /\ pc = "many_x"
    /\ \E m2 \in PlainIn, withLevel \in BOOLEAN, r1 \in Rand, r2 \in Rand :
          /\ ct2' = level_d_encrypt(IF withLevel THEN <<pk, hist.l, m2>>
                                    ELSE <<pk, m2>>, r1, r2)
          /\ hist' = [hist EXCEPT !.m2 = m2]
    /\ pc' = "many_xy"
    /\ UNCHANGED <<sk, pk, ct, pt, nops>>

\* ct = ct * ct2; an operand that raised ends the expression with its
\* exception.
ManyMul ==
    /\ pc = "many_xy"
    /\ ct' = IF ct.kind = "Raise" THEN ct
             ELSE IF ct2.kind = "Raise" THEN ct2
             ELSE PyMul(ct, ct2)
    /\ pc' = "many_prod"
    /\ UNCHANGED <<sk, pk, ct2, pt, hist, nops>>

\* pt = many_level.decrypt(sk, ct)
ManyDecrypt ==
    /\ pc = "many_prod"
    /\ \E frZeroTruthy \in BOOLEAN :
          pt' = IF ct.kind = "Raise" THEN ct
                ELSE level_d_decrypt(sk, ct, frZeroTruthy)
    /\ pc' = "many_done"
    /\ UNCHANGED <<sk, pk, ct, ct2, hist, nops>>

NextMany ==
    \/ ManyImport
    \/ ManyKeygen
    \/ TwoLevelKeygen
    \/ ManyEncrypt
    \/ ManyEncryptSecond
    \/ ManyMul
    \/ ManyDecrypt

SpecMany == InitMany /\ [][NextMany]_vars

\* C10: many_level.decrypt(sk, many_level.encrypt(pk, l, m) *
\* many_level.encrypt(pk, l, m')) is m * m' (mod p; the modulus, which no
\* code sets, is taken to be the order of the field).
C10_Original ==
    pc = "many_done" => pt = FrVal((hist.m * hist.m2) % Q)

----------------------------------------------------------------------------
(* Any-level ciphertexts: the class CTI of level_d.py.                     *)

\* The highest level the library announces ("level-4 homomorphic
\* encryption").
LevelBudget == 4

\* class CTI(NamedTuple): lvl, inner, extension
CTI(lvl, inner, extension) ==
    [kind |-> "CTI", lvl |-> lvl, inner |-> inner, extension |-> extension]

CTI___mul___adds_levels(self, other) ==
    IF other.kind = "CTI"
    THEN CTI(self.lvl + other.lvl, self, other.extension)
    ELSE Raise("TypeError")

\* CTI defines no __mul__ and inherits the tuple's: repetition by an int,
\* TypeError for any other operand.
CTI___mul__(self, other) ==
    IF other.kind = "int"
    THEN TupleVal((IF other.v > 0 THEN other.v ELSE 0) * 3)
    ELSE Raise("TypeError")

\* level_d.multiply_G1_G2(ct1, ct2): return CTGT(ct1.g1r @ ct2.g2r, ...)
level_d_multiply_G1_G2(c1, c2) ==
    IF Bound("CTGT") THEN multiply_G1_G2(c1, c2) ELSE Raise("NameError")

\* ct = CTI(la, None, e); ct2 = CTI(lb, None, e2)
ManyConstruct ==
    /\ pc = "many_keyed"
    /\ \E la \in 1 .. LevelBudget, lb \in 1 .. LevelBudget,
          e \in PlainIn, e2 \in PlainIn :
          /\ ct' = CTI(la, None, e)
          /\ ct2' = CTI(lb, None, e2)
    /\ hist' = [op |-> "construct"]
    /\ pc' = "cti_xy"
    /\ UNCHANGED <<sk, pk, pt, nops>>

\* ct = ct * ct2
CTIMul ==
    /\ pc = "cti_xy"
    /\ ct' = CTI___mul__(ct, ct2)
    /\ hist' = [op |-> "cti_mul", a |-> ct]
    /\ pc' = "cti_prod"
    /\ UNCHANGED <<sk, pk, ct2, pt, nops>>

\* ct = many_level.advanced.multiply_G1_G2(ct, ct2)
CTIMultiply ==
    /\ pc = "cti_xy"
    /\ ct' = level_d_multiply_G1_G2(ct, ct2)
    /\ hist' = [op |-> "cti_multiply", a |-> ct]
    /\ pc' = "cti_prod"
    /\ UNCHANGED <<sk, pk, ct2, pt, nops>>

NextLevels ==
    \/ ManyImport
    \/ ManyKeygen
    \/ TwoLevelKeygen
    \/ ManyEncrypt
    \/ ManyEncryptSecond
    \/ ManyMul
    \/ ManyDecrypt
    \/ ManyConstruct
    \/ CTIMul
    \/ CTIMultiply

SpecLevels == InitMany /\ [][NextLevels]_vars

----------------------------------------------------------------------------
(* Decryption of a dual ciphertext.                                        *)

----------------------------------------------------------------------------
(* Scalar multiplication and repeated addition.                            *)

\* c + c + ... + c, k terms, k >= 1.
RECURSIVE KFoldSum(_, _)
KFoldSum(c, k) == IF k = 1 THEN c ELSE PyAdd(KFoldSum(c, k - 1), c)

----------------------------------------------------------------------------
(* Dual level-1 ciphertexts under addition, scalar multiplication and      *)
(* negation.  hist.m follows the plaintext, as an element of Fr.           *)

\* ct = encrypt_lvl_1(pk, m)
DualEncrypt ==
    /\ pc = "keyed"
    /\ \E m \in PlainIn, r1 \in Rand, r2 \in Rand :
          /\ ct' = encrypt_lvl_1(pk, m, r1, r2)
          /\ hist' = [op |-> "encrypt", m |-> FrOf(m)]
    /\ pc' = "dual"
    /\ UNCHANGED <<sk, pk, ct2, pt, nops>>

\* ct = ct + encrypt_lvl_1(pk, m)
DualAdd ==
    /\ pc = "dual"
    /\ nops < MaxOps
    /\ \E m \in PlainIn, r1 \in Rand, r2 \in Rand :
          /\ ct' = CT1___add__(ct, encrypt_lvl_1(pk, m, r1, r2))
          /\ hist' = [op |-> "add", m |-> Fr_add(hist.m, FrOf(m))]
    /\ nops' = nops + 1
    /\ UNCHANGED <<pc, sk, pk, ct2, pt>>

\* ct = ct * k | ct * Fr(k) | k * ct | ct.__rmul__(Fr(k))
DualScale ==
    /\ pc = "dual"
    /\ nops < MaxOps
    /\ \E k \in 0 .. MaxScalar, form \in Forms :
          /\ ct' = CASE form = "ct*int" -> CT1___mul__(ct, IntVal(k))
                     [] form = "ct*Fr" -> CT1___mul__(ct, FrVal(k))
                     [] form = "int*ct" -> CT1___rmul__(ct, IntVal(k))
                     [] form = "__rmul__(Fr)" -> CT1___rmul__(ct, FrVal(k))
          /\ hist' = [op |-> "scale", m |-> Fr_mul(hist.m, FrOf(k))]
    /\ nops' = nops + 1
    /\ UNCHANGED <<pc, sk, pk, ct2, pt>>

\* ct = -ct
DualNeg ==
    /\ pc = "dual"
    /\ nops < MaxOps
    /\ ct' = CT1___neg__(ct)
    /\ hist' = [op |-> "neg", m |-> Fr_neg(hist.m)]
    /\ nops' = nops + 1
    /\ UNCHANGED <<pc, sk, pk, ct2, pt>>

\* ct = ct + (-ct)
DualCancel ==
    /\ pc = "dual"
    /\ nops < MaxOps
    /\ ct' = CT1___add__(ct, CT1___neg__(ct))
    /\ hist' = [op |-> "cancel", m |-> 0]
    /\ nops' = nops + 1
    /\ UNCHANGED <<pc, sk, pk, ct2, pt>>

NextDual ==
    \/ Keygen
    \/ DualEncrypt
    \/ DualAdd
    \/ DualScale
    \/ DualNeg
    \/ DualCancel

SpecDual == Init /\ [][NextDual]_vars

\* C14: every CT1 reached from encrypt_lvl_1 by additions, scalar
\* multiplications and negations has both halves unmasking to the same
\* plaintext exponent m (the sum, the multiple, the negative of the
\* operands' plaintexts), and ct + (-ct) decrypts to 0.
C14_DualConsistency ==
    pc = "dual" =>
        /\ ct.kind = "CT1"
        /\ Unmasked_G1(ct.ctg1) = G_mul(g1, hist.m)
        /\ Unmasked_G2(ct.ctg2) = G_mul(g2, hist.m)
        /\ hist.op = "cancel" =>
              \A fz \in BOOLEAN : decrypt(sk, ct, fz) = FrVal(0)

\* The negation of a masked ciphertext of 1, reached after an operation:
\* both halves unmask to -1, which the signed search returns.
C14_Witness ==
    /\ pc = "dual"
    /\ hist.op = "neg"
    /\ nops = 2
    /\ hist.m = FrOf(0 - 1)
    /\ ct.ctg1.g1r # 0
    /\ ct.ctg2.g2r # 0
    /\ sk.s1 # 0
    /\ sk.s2 # 0
    /\ sk.s1 # sk.s2
    /\ decrypt(sk, ct, TRUE) = FrVal(FrOf(0 - 1))

====
